---- MODULE Spec2Model ----
(***************************************************************************)
(* Order lifecycle and money accounting of the pressing backend            *)
(* (src/api): order creation with nested line items, order-id generation,  *)
(* payments against an order and through the payments collection, status   *)
(* changes, price changes and deletions in the catalogue, deletions of     *)
(* orders and payments.                                                    *)
(*                                                                         *)
(* The database is modelled as three tables (orders, items, payments) of   *)
(* rows.  Every request is served by a worker; a request is a sequence of  *)
(* SQL statements, one statement per step, so that requests of different   *)
(* workers interleave between statements.  Statements run in autocommit    *)
(* mode unless the handler opens a transaction (transaction.atomic): rows  *)
(* written inside a transaction carry the writer's tx tag and are seen by  *)
(* the writer alone until the commit (READ COMMITTED).                     *)
(*                                                                         *)
(* Money is an integer number of cents (Decimal with 2 places).            *)
(***************************************************************************)
EXTENDS Integers, Sequences, FiniteSets, TLC

\* ---------------------------------------------------------------- bounds
\* Number of worker threads/processes serving requests concurrently.
NumWorkers == 2
\* Number of requests served in one behaviour that starts from the empty
\* database (Spec) ...
MaxRequests == 3
\* ... and in one behaviour of the narrower specifications below.
ScenarioRequests == 2

Workers == 1..NumWorkers

\* ------------------------------------------------------------- constants
\* tx tag of a committed row / of a statement run in autocommit mode.
NoTx == 0
\* pickup_date = NULL (models.py: null=True); a set date is a day >= 1.
NoDate == 0
\* reference = '' (blank), order_id = '' (blank)
Blank == <<>>

STATUS_CHOICES == {"PENDING", "IN_PROGRESS", "READY", "DELIVERED", "CANCELLED"}

\* MinValueValidator(1) on Payment.amount: 1 monetary unit = 100 cents.
MinPaymentAmount == 100

\* random.randint(1000, 9999) of Order.save, scaled down to a range of the
\* same shape: a lower end above the first counted numbers, a few values.
RandomLow == 2
RandomHigh == 3
RandomParts == RandomLow..RandomHigh

\* The calendar days a behaviour spans: a day and the day after.
Days == {1, 2}

\* --------------------------------------------------------- request inputs
Item(s, q) == [service_id |-> s, quantity |-> q]

\* Item lists of createOrder requests: the scenario of the specification
\* (10.00 x 2 + 5.50 x 1), a single line, and a list whose second line
\* names a service, 3, that does not exist.
ItemLists ==
    { <<Item(1, 2), Item(2, 1)>>,
      <<Item(2, 3)>>,
      <<Item(1, 1), Item(3, 1)>> }

\* Amounts of addPayment requests, in cents: 0, 0.50, 10.00, 15.50.
Amounts == {0, 50, 1000, 1550}

\* References a client may supply with a payment: none, one of its own, or
\* one of the form the backend generates ("PAY-2").
UserRef == <<"USR", 1>>
References == {Blank, UserRef, <<"PAY", 2>>}

\* Status values a client may request: the five choices, an unknown one,
\* and none at all (request.data.get('status') is None).
RequestedStatuses == STATUS_CHOICES \cup {"SHIPPED", "None"}

VARIABLES
    today,      \* the current date (timezone.now()), a day number
    services,   \* table services: rows [id, price]
    orders,     \* table orders
    items,      \* table order_item
    payments,   \* table payments
    nextId,     \* the tables' auto-increment counters
    pc,         \* each worker's position in the request it serves
    loc,        \* each worker's request data and local variables
    resp,       \* each worker's last response
    budget      \* requests still to be accepted

vars == <<today, services, orders, items, payments, nextId, pc, loc, resp, budget>>

\* ------------------------------------------------------------ the tables
Row(rows, k) == CHOOSE r \in rows : r.pk = k
HasRow(rows, k) == \E r \in rows : r.pk = k

\* Rows a statement of worker p reads: the committed ones and p's own.
VisibleTo(p, rows) == {r \in rows : r.tx = NoTx \/ r.tx = p}
Committed(rows) == {r \in rows : r.tx = NoTx}

NoRow ==
    [pk |-> 0, order_id |-> Blank, status |-> "PENDING", pickup_date |-> NoDate,
     total_amount |-> 0, amount_paid |-> 0, tx |-> NoTx]

NoLoc ==
    [kind |-> "none", order |-> 0, items |-> <<>>, idx |-> 0, total |-> 0,
     oid |-> Blank, amount |-> 0, ref |-> Blank, reference |-> Blank,
     status |-> "None", due |-> NoDate, snap |-> NoRow]

\* Sum('amount') over a set of payment rows.
RECURSIVE SumAmount(_)
SumAmount(rows) ==
    IF rows = {} THEN 0
    ELSE LET r == CHOOSE x \in rows : TRUE
         IN r.amount + SumAmount(rows \ {r})

\* Sum('total_price') over a set of line-item rows.
RECURSIVE SumTotalPrice(_)
SumTotalPrice(rows) ==
    IF rows = {} THEN 0
    ELSE LET r == CHOOSE x \in rows : TRUE
         IN r.total_price + SumTotalPrice(rows \ {r})

Max(S) == IF S = {} THEN 0 ELSE CHOOSE m \in S : \A x \in S : x <= m

\* ---------------------------------------------------------- initial state
\* The catalogue: service 1 at 10.00 in category 1, service 2 at 5.50 in
\* category 2.
InitialServices ==
    {[id |-> 1, price |-> 1000, category |-> 1],
     [id |-> 2, price |-> 550, category |-> 2]}

\* The workers at rest, with b requests to come.
AtRest(b) ==
    /\ today = 1
    /\ services = InitialServices
    /\ pc = [p \in Workers |-> "idle"]
    /\ loc = [p \in Workers |-> NoLoc]
    /\ resp = [p \in Workers |-> "none"]
    /\ budget = b

\* The database after the migrations: no order, no item, no payment.
EmptyDatabase ==
    /\ orders = {}
    /\ items = {}
    /\ payments = {}
    /\ nextId = [order |-> 1, item |-> 1, payment |-> 1]

\* The database that createOrder makes of the empty one on day 1 with the
\* items (service 1 x 2, service 2 x 1): one order of 25.50, nothing paid.
OneOrderDatabase ==
    /\ orders = {[pk |-> 1, order_id |-> <<1, 1>>, status |-> "PENDING",
                  pickup_date |-> NoDate, total_amount |-> 2550, amount_paid |-> 0,
                  tx |-> NoTx]}
    /\ items = {[pk |-> 1, order |-> 1, service |-> 1, quantity |-> 2,
                 unit_price |-> 1000, total_price |-> 2000, tx |-> NoTx],
                [pk |-> 2, order |-> 1, service |-> 2, quantity |-> 1,
                 unit_price |-> 550, total_price |-> 550, tx |-> NoTx]}
    /\ payments = {}
    /\ nextId = [order |-> 2, item |-> 3, payment |-> 1]

Init == AtRest(MaxRequests) /\ EmptyDatabase

\* timezone.now(): the clock never runs backwards.  Time passes unobserved
\* between two readings, so the day advances where it is read.
Now == {d \in Days : d >= today}

\* A worker accepts a request when it serves none.
Free(p) == pc[p] \in {"idle", "done"} /\ budget > 0

\* What stays of a request once it is served: the request itself.
Served(l) ==
    [NoLoc EXCEPT !.kind = l.kind, !.order = l.order, !.items = l.items,
                  !.amount = l.amount, !.ref = l.ref, !.status = l.status,
                  !.due = l.due]

\* The request of worker p ends with response r.
Respond(p, r) ==
    /\ pc' = [pc EXCEPT ![p] = "done"]
    /\ resp' = [resp EXCEPT ![p] = r]
    /\ loc' = [loc EXCEPT ![p] = Served(loc[p])]

\* ------------------------------------- createOrder: the request's body
\* A due date that is after no day of a behaviour, and one after them all.
DueDates == {1, 3}

Body(its, due, st, paid) ==
    [items |-> its, due_date |-> due, status |-> st, amount_paid |-> paid]

\* Bodies of POST /orders/ requests: the scenario of the specification; a
\* body that also carries a status and an amount_paid; a service that does
\* not exist after a valid line, and another one in the first line; a
\* quantity of 0 after a valid line; a due date that is not in the future.
CreateRequests ==
    { Body(<<Item(1, 2), Item(2, 1)>>, 3, "None", 0),
      Body(<<Item(2, 3)>>, 3, "DELIVERED", 1000),
      Body(<<Item(1, 1), Item(3, 1)>>, 3, "None", 0),
      Body(<<Item(4, 1), Item(1, 1)>>, 3, "None", 0),
      Body(<<Item(1, 2), Item(2, 0)>>, 3, "None", 0),
      Body(<<Item(2, 3)>>, 1, "None", 0) }

\* OrderItemCreateSerializer: quantity = IntegerField(min_value=1).
QuantityValid(it) == it.quantity >= 1

\* OrderCreateSerializer.Meta.fields: of the body, validated_data keeps
\* customer, due_date, notes and items; status and amount_paid are no
\* fields of the serializer and are dropped.
validated_data_all(data) == data
validated_data(data) == [items |-> data.items, due_date |-> data.due_date]

\* The body a request was sent with, as loc keeps it.
BodyOf(l) == Body(l.items, l.due, l.status, l.amount)

\* Order.objects.create(**validated_data, ...): a field that validated_data
\* does not hold takes the default of the model.
FieldOr(vd, name, default) == IF name \in DOMAIN vd THEN vd[name] ELSE default

\* POST /orders/ with a body: loc keeps the body as it was sent.
StartCreateRequest(p, data) ==
    /\ Free(p)
    /\ budget' = budget - 1
    /\ loc' = [loc EXCEPT ![p] = [NoLoc EXCEPT !.kind = "create",
                                               !.items = data.items,
                                               !.due = data.due_date,
                                               !.status = data.status,
                                               !.amount = data.amount_paid]]
    /\ pc' = [pc EXCEPT ![p] = "co_validate"]
    /\ resp' = [resp EXCEPT ![p] = "none"]
    /\ UNCHANGED <<today, services, orders, items, payments, nextId>>

\* serializer.is_valid(): every item's quantity is checked; due_date must
\* be a datetime and is compared with nothing (OrderCreateSerializer has no
\* validate(), and neither it nor Model.save calls Order.clean).
CreateValidate(p) ==
    /\ pc[p] = "co_validate"
    /\ LET data == validated_data(BodyOf(loc[p]))
       IN IF \A n \in 1..Len(data.items) : QuantityValid(data.items[n])
          THEN /\ pc' = [pc EXCEPT ![p] = "co_generate"]
               /\ UNCHANGED <<loc, resp>>
          ELSE Respond(p, "400 ValidationError quantity")
    /\ UNCHANGED <<today, services, orders, items, payments, nextId, budget>>

\* ------------------------------------------------- createOrder (API path)
\* @transaction.atomic on OrderCreateSerializer.create: the tx tag of the
\* rows the request writes.
TxOfAutocommit(p) == NoTx
TxOf(p) == p

\* Leaving the atomic block by an exception: the transaction's rows vanish.
RolledBack(p, rows) == {r \in rows : r.tx # p}
\* Leaving the atomic block normally: the transaction's rows are committed.
CommittedBy(p, rows) == {IF r.tx = p THEN [r EXCEPT !.tx = NoTx] ELSE r : r \in rows}

\* generate_order_id on day d: CMD-<d>-<count of the day's orders + 1>.
generate_order_id(p, d) ==
    LET sameDay == {o \in VisibleTo(p, orders) :
                        o.order_id # Blank /\ o.order_id[1] = d}
    IN <<d, Cardinality(sameDay) + 1>>

\* unique=True on order_id: the insert fails on a committed duplicate ...
OrderIdTakenNever(oid) == FALSE
OrderIdTaken(oid) == \E o \in Committed(orders) : o.order_id = oid
\* ... and waits for another transaction that holds the same key.
OrderIdLocked(p, oid) == \E o \in orders : o.tx # NoTx /\ o.tx # p /\ o.order_id = oid

\* serializers.py:308: the line's price, added to the running total.
LineTotalUnitOnly(unit_price, quantity) == unit_price
LineTotal(unit_price, quantity) == unit_price * quantity

\* OrderItem.save: total_price is recomputed from unit_price and quantity.
OrderItem_save(row) == [row EXCEPT !.total_price = row.unit_price * row.quantity]

\* POST /orders/: the request is accepted, validated_data holds the items.
StartCreate(p, its) ==
    /\ Free(p)
    /\ budget' = budget - 1
    /\ loc' = [loc EXCEPT ![p] = [NoLoc EXCEPT !.kind = "create", !.items = its]]
    /\ pc' = [pc EXCEPT ![p] = "co_generate"]
    /\ resp' = [resp EXCEPT ![p] = "none"]
    /\ UNCHANGED <<today, services, orders, items, payments, nextId>>

\* order_id=generate_order_id(): the SELECT COUNT of today's orders.
CreateGenerateId(p) ==
    /\ pc[p] = "co_generate"
    /\ \E d \in Now :
        /\ today' = d
        /\ loc' = [loc EXCEPT ![p].oid = generate_order_id(p, d)]
    /\ pc' = [pc EXCEPT ![p] = "co_insert"]
    /\ UNCHANGED <<services, orders, items, payments, nextId, resp, budget>>

\* Order.objects.create(...): Order.save skips its own generation, the id
\* being set, and the row is inserted.
CreateInsertOrder(p) ==
    /\ pc[p] = "co_insert"
    /\ ~OrderIdLocked(p, loc[p].oid)
    /\ IF OrderIdTaken(loc[p].oid)
       THEN /\ orders' = RolledBack(p, orders)
            /\ items' = RolledBack(p, items)
            /\ Respond(p, "500 IntegrityError")
            /\ UNCHANGED nextId
       ELSE /\ LET vd == validated_data(BodyOf(loc[p]))
               IN orders' = orders \cup
                    {[pk |-> nextId.order, order_id |-> loc[p].oid,
                      status |-> FieldOr(vd, "status", "PENDING"),
                      pickup_date |-> NoDate, total_amount |-> 0,
                      amount_paid |-> FieldOr(vd, "amount_paid", 0),
                      tx |-> TxOf(p)]}
            /\ nextId' = [nextId EXCEPT !.order = @ + 1]
            /\ loc' = [loc EXCEPT ![p].order = nextId.order, ![p].idx = 1]
            /\ pc' = [pc EXCEPT ![p] = "co_items"]
            /\ UNCHANGED <<items, resp>>
    /\ UNCHANGED <<today, services, payments, budget>>

\* serializers.ValidationError(f"Service with id {id} does not exist.")
ServiceNotFound(id) == "400 Service with id " \o ToString(id) \o " does not exist."

\* One round of the loop over items_data: Service.objects.get, then
\* OrderItem.objects.create, then total_amount += total_price.
CreateItem(p) ==
    /\ pc[p] = "co_items"
    /\ loc[p].idx <= Len(loc[p].items)
    /\ LET it == loc[p].items[loc[p].idx]
           found == {s \in services : s.id = it.service_id}
       IN IF found = {}
          THEN /\ orders' = RolledBack(p, orders)
               /\ items' = RolledBack(p, items)
               /\ Respond(p, ServiceNotFound(it.service_id))
               /\ UNCHANGED nextId
          ELSE LET service == CHOOSE s \in found : TRUE
                   total_price == LineTotal(service.price, it.quantity)
               IN /\ items' = items \cup
                        {OrderItem_save(
                            [pk |-> nextId.item, order |-> loc[p].order,
                             service |-> service.id, quantity |-> it.quantity,
                             unit_price |-> service.price,
                             total_price |-> total_price, tx |-> TxOf(p)])}
                  /\ nextId' = [nextId EXCEPT !.item = @ + 1]
                  /\ loc' = [loc EXCEPT ![p].idx = @ + 1,
                                        ![p].total = @ + total_price]
                  /\ UNCHANGED <<orders, pc, resp>>
    /\ UNCHANGED <<today, services, payments, budget>>

\* order.total_amount = total_amount; order.save(update_fields=[...]).
CreateSaveTotal(p) ==
    /\ pc[p] = "co_items"
    /\ loc[p].idx > Len(loc[p].items)
    /\ orders' = {IF o.pk = loc[p].order
                  THEN [o EXCEPT !.total_amount = loc[p].total] ELSE o : o \in orders}
    /\ pc' = [pc EXCEPT ![p] = "co_commit"]
    /\ UNCHANGED <<today, services, items, payments, nextId, loc, resp, budget>>

\* The atomic block is left: commit, 201.
CreateCommit(p) ==
    /\ pc[p] = "co_commit"
    /\ orders' = CommittedBy(p, orders)
    /\ items' = CommittedBy(p, items)
    /\ Respond(p, "201")
    /\ UNCHANGED <<today, services, payments, nextId, budget>>

\* ------------------------------------------- Order.save (admin add view)
\* An order saved with a blank order_id (OrderAdmin: order_id is not
\* editable, so the add form leaves it blank): Order.save reads the date ...
StartAdminCreate(p) ==
    /\ Free(p)
    /\ budget' = budget - 1
    /\ \E d \in Now :
        /\ today' = d
        /\ loc' = [loc EXCEPT ![p] = [NoLoc EXCEPT !.kind = "admin_create",
                                                   !.oid = <<d>>]]
    /\ pc' = [pc EXCEPT ![p] = "sv_loop"]
    /\ resp' = [resp EXCEPT ![p] = "none"]
    /\ UNCHANGED <<services, orders, items, payments, nextId>>

\* ... and loops: draw a random part, keep it when no order has the id,
\* else draw again.  The loop has no other exit.
SaveLoop(p) ==
    /\ pc[p] = "sv_loop"
    /\ \E r \in RandomParts :
        LET order_id == <<loc[p].oid[1], r>>
        IN IF ~\E o \in VisibleTo(p, orders) : o.order_id = order_id
           THEN /\ loc' = [loc EXCEPT ![p].oid = order_id]
                /\ pc' = [pc EXCEPT ![p] = "sv_insert"]
           ELSE UNCHANGED <<loc, pc>>
    /\ UNCHANGED <<today, services, orders, items, payments, nextId, resp, budget>>

\* super().save(): the INSERT, under the unique constraint on order_id.
SaveInsert(p) ==
    /\ pc[p] = "sv_insert"
    /\ ~OrderIdLocked(p, loc[p].oid)
    /\ IF OrderIdTaken(loc[p].oid)
       THEN /\ Respond(p, "500 IntegrityError")
            /\ UNCHANGED <<orders, nextId>>
       ELSE /\ orders' = orders \cup
                    {[pk |-> nextId.order, order_id |-> loc[p].oid,
                      status |-> "PENDING", pickup_date |-> NoDate,
                      total_amount |-> 0, amount_paid |-> 0, tx |-> NoTx]}
            /\ nextId' = [nextId EXCEPT !.order = @ + 1]
            /\ pc' = [pc EXCEPT ![p] = "done"]
            /\ resp' = [resp EXCEPT ![p] = "201"]
            /\ loc' = [loc EXCEPT ![p] = [Served(loc[p]) EXCEPT !.order = nextId.order]]
    /\ UNCHANGED <<today, services, items, payments, budget>>

\* ------------------------------------------- Order.balance, Order.is_paid
balance(o) == o.total_amount - o.amount_paid

is_paid_strictly(o) == o.amount_paid > o.total_amount
is_paid(o) == o.amount_paid >= o.total_amount

\* ------------------------------------------------------------ addPayment
\* POST /orders/<pk>/add_payment/: get_object() finds the order.
StartAddPayment(p, o, amt, ref) ==
    /\ Free(p)
    /\ budget' = budget - 1
    /\ HasRow(Committed(orders), o)
    /\ loc' = [loc EXCEPT ![p] = [NoLoc EXCEPT !.kind = "add_payment", !.order = o,
                                               !.amount = amt, !.ref = ref,
                                               !.reference = ref]]
    /\ pc' = [pc EXCEPT ![p] = "ap_validate"]
    /\ resp' = [resp EXCEPT ![p] = "none"]
    /\ UNCHANGED <<today, services, orders, items, payments, nextId>>

\* serializer.is_valid(): MinValueValidator(1) on amount, UniqueValidator on
\* a reference that is given.
PaymentValid(amt, ref) ==
    /\ amt >= MinPaymentAmount
    /\ ref # Blank => ~\E y \in payments : y.reference = ref

PayValidate(p) ==
    /\ pc[p] = "ap_validate"
    /\ IF PaymentValid(loc[p].amount, loc[p].ref)
       THEN /\ pc' = [pc EXCEPT ![p] = IF loc[p].ref = Blank THEN "ap_reference"
                                                            ELSE "ap_insert"]
            /\ UNCHANGED <<loc, resp>>
       ELSE Respond(p, "400 ValidationError")
    /\ UNCHANGED <<today, services, orders, items, payments, nextId, budget>>

\* Payment.save with a blank reference: PAY-<max id + 1>.
PayReference(p) ==
    /\ pc[p] = "ap_reference"
    /\ LET last_id == Max({y.pk : y \in payments})
       IN loc' = [loc EXCEPT ![p].reference = <<"PAY", last_id + 1>>]
    /\ pc' = [pc EXCEPT ![p] = "ap_insert"]
    /\ UNCHANGED <<today, services, orders, items, payments, nextId, resp, budget>>

\* super().save(): the INSERT, under the foreign key to the order and the
\* unique constraint on reference.
PayInsert(p) ==
    /\ pc[p] = "ap_insert"
    /\ IF \/ ~HasRow(Committed(orders), loc[p].order)
          \/ \E y \in payments : y.reference = loc[p].reference
       THEN /\ Respond(p, "500 IntegrityError")
            /\ UNCHANGED <<payments, nextId>>
       ELSE /\ payments' = payments \cup
                    {[pk |-> nextId.payment, order |-> loc[p].order,
                      amount |-> loc[p].amount, reference |-> loc[p].reference]}
            /\ nextId' = [nextId EXCEPT !.payment = @ + 1]
            /\ pc' = [pc EXCEPT ![p] = "ap_update"]
            /\ UNCHANGED <<loc, resp>>
    /\ UNCHANGED <<today, services, orders, items, budget>>

\* Order.objects.filter(pk=order.pk).update(amount_paid=F('amount_paid') +
\* payment.amount): one UPDATE statement, computed on the stored value.
Increment(row, amt) == [row EXCEPT !.amount_paid = row.amount_paid + amt]

PayUpdate(p) ==
    /\ pc[p] = "ap_update"
    /\ orders' = {IF o.pk = loc[p].order /\ o.tx = NoTx
                  THEN Increment(o, loc[p].amount) ELSE o : o \in orders}
    /\ pc' = [pc EXCEPT ![p] = "ap_refresh"]
    /\ UNCHANGED <<today, services, items, payments, nextId, loc, resp, budget>>

\* order.refresh_from_db(), then the 201 response.
PayRefresh(p) ==
    /\ pc[p] = "ap_refresh"
    /\ IF HasRow(Committed(orders), loc[p].order)
       THEN Respond(p, "201")
       ELSE Respond(p, "500 DoesNotExist")
    /\ UNCHANGED <<today, services, orders, items, payments, nextId, budget>>

\* add_payment opens no transaction: its INSERT and its UPDATE are two
\* autocommit statements, and either may raise a database error
\* (sqlite3: "database is locked"), which ends the request with a 500.
StorageFault(p) ==
    /\ pc[p] \in {"ap_insert", "ap_update"}
    /\ Respond(p, "500 OperationalError")
    /\ UNCHANGED <<today, services, orders, items, payments, nextId, budget>>

\* ------------------------------------------- the payments collection
\* PaymentSerializer.Meta.fields: of the body of a request, validated_data
\* keeps amount, payment_method, reference and notes; the serializer has no
\* field for the order (order_id is a read-only method field).
validated_payment(data) == [amount |-> data.amount, reference |-> data.reference]

\* POST /payments/ with a body that names the order, an amount and a
\* reference.
StartCreatePayment(p, o, amt, ref) ==
    /\ Free(p)
    /\ budget' = budget - 1
    /\ loc' = [loc EXCEPT ![p] = [NoLoc EXCEPT !.kind = "create_payment", !.order = o,
                                               !.amount = amt, !.ref = ref,
                                               !.reference = ref]]
    /\ pc' = [pc EXCEPT ![p] = "cp_validate"]
    /\ resp' = [resp EXCEPT ![p] = "none"]
    /\ UNCHANGED <<today, services, orders, items, payments, nextId>>

\* serializer.is_valid(raise_exception=True)
CreatePaymentValidate(p) ==
    /\ pc[p] = "cp_validate"
    /\ IF PaymentValid(loc[p].amount, loc[p].ref)
       THEN /\ pc' = [pc EXCEPT ![p] = "cp_insert"]
            /\ UNCHANGED <<loc, resp>>
       ELSE Respond(p, "400 ValidationError")
    /\ UNCHANGED <<today, services, orders, items, payments, nextId, budget>>

\* perform_create: serializer.save(user=...) builds the Payment from
\* validated_data, which holds no order: Payment.save generates the
\* reference and its INSERT violates NOT NULL on payments.order_id.  The
\* exception leaves perform_create, so the statements after it (order =
\* payment.order; order.amount_paid += payment.amount; order.save) never run.
CreatePaymentInsert(p) ==
    /\ pc[p] = "cp_insert"
    /\ LET vd == validated_payment([order |-> loc[p].order, amount |-> loc[p].amount,
                                    reference |-> loc[p].reference])
       IN FieldOr(vd, "order", 0) = 0
    /\ Respond(p, "500 IntegrityError")
    /\ UNCHANGED <<today, services, orders, items, payments, nextId, budget>>

\* PATCH /payments/<pk>/ {amount}: get_object() loads the payment and the
\* serializer validates the amount, which is a writable field.
StartUpdatePayment(p, k, amt) ==
    /\ Free(p)
    /\ budget' = budget - 1
    /\ HasRow(payments, k)
    /\ resp' = [resp EXCEPT ![p] = "none"]
    /\ LET y == Row(payments, k)
       IN loc' = [loc EXCEPT ![p] = [NoLoc EXCEPT !.kind = "update_payment",
                                                  !.order = y.order, !.idx = k,
                                                  !.amount = amt,
                                                  !.reference = y.reference]]
    /\ pc' = [pc EXCEPT ![p] = "up_validate"]
    /\ UNCHANGED <<today, services, orders, items, payments, nextId>>

\* perform_update: serializer.save() sets the amount on the instance and
\* Payment.save writes the row (an UPDATE of every field, or an INSERT when
\* the row is gone); the order's amount_paid is not touched.
UpdatePaymentSave(p) ==
    /\ pc[p] = "up_validate"
    /\ LET row == [pk |-> loc[p].idx, order |-> loc[p].order,
                   amount |-> loc[p].amount, reference |-> loc[p].reference]
       IN IF loc[p].amount < MinPaymentAmount
          THEN /\ Respond(p, "400 ValidationError")
               /\ UNCHANGED payments
          ELSE IF HasRow(payments, loc[p].idx)
          THEN /\ payments' = {IF y.pk = row.pk THEN row ELSE y : y \in payments}
               /\ Respond(p, "200")
          ELSE IF \/ ~HasRow(Committed(orders), row.order)
                  \/ \E y \in payments : y.reference = row.reference
          THEN /\ Respond(p, "500 IntegrityError")
               /\ UNCHANGED payments
          ELSE /\ payments' = payments \cup {row}
               /\ Respond(p, "200")
    /\ UNCHANGED <<today, services, orders, items, nextId, budget>>

\* ---------------------------------------- changeStatus and order update
\* POST /orders/<pk>/change_status/: get_object() loads the whole row.
StartChangeStatus(p, o, s) ==
    /\ Free(p)
    /\ budget' = budget - 1
    /\ HasRow(Committed(orders), o)
    /\ loc' = [loc EXCEPT ![p] = [NoLoc EXCEPT !.kind = "change_status", !.order = o,
                                               !.status = s,
                                               !.snap = Row(Committed(orders), o)]]
    /\ pc' = [pc EXCEPT ![p] = "cs_check"]
    /\ resp' = [resp EXCEPT ![p] = "none"]
    /\ UNCHANGED <<today, services, orders, items, payments, nextId>>

\* new_status not in dict(Order.STATUS_CHOICES)
ValidStatusAny(s) == TRUE
ValidStatus(s) == s \in STATUS_CHOICES

\* The membership test; then order.status = new_status and, for DELIVERED,
\* order.pickup_date = timezone.now().
ChangeStatusCheck(p) ==
    /\ pc[p] = "cs_check"
    /\ IF ~ValidStatus(loc[p].status)
       THEN /\ Respond(p, "400 Invalid status")
            /\ UNCHANGED today
       ELSE IF loc[p].status = "DELIVERED"
       THEN \E d \in Now :
              /\ today' = d
              /\ loc' = [loc EXCEPT ![p].snap.status = loc[p].status,
                                    ![p].snap.pickup_date = d]
              /\ pc' = [pc EXCEPT ![p] = "order_save"]
              /\ UNCHANGED resp
       ELSE /\ loc' = [loc EXCEPT ![p].snap.status = loc[p].status]
            /\ pc' = [pc EXCEPT ![p] = "order_save"]
            /\ UNCHANGED <<today, resp>>
    /\ UNCHANGED <<services, orders, items, payments, nextId, budget>>

\* PUT/PATCH /orders/<pk>/ (OrderSerializer): get_object() loads the row,
\* the serializer validates status against the choices and sets it on the
\* instance; total_amount, amount_paid, order_id are read-only fields.
StartUpdateOrder(p, o, s) ==
    /\ Free(p)
    /\ budget' = budget - 1
    /\ HasRow(Committed(orders), o)
    /\ resp' = [resp EXCEPT ![p] = "none"]
    /\ loc' = [loc EXCEPT ![p] =
                 [NoLoc EXCEPT !.kind = "update_order", !.order = o, !.status = s,
                               !.snap = [Row(Committed(orders), o) EXCEPT !.status = s]]]
    /\ pc' = [pc EXCEPT ![p] = "order_save"]
    /\ UNCHANGED <<today, services, orders, items, payments, nextId>>

\* order.save() / instance.save(): Order.save keeps the order_id that is
\* set; Model.save writes every field of the instance with one UPDATE and,
\* when no row has the pk any more, INSERTs the instance.
OrderSave(p) ==
    /\ pc[p] = "order_save"
    /\ IF HasRow(Committed(orders), loc[p].order)
       THEN /\ orders' = {IF o.pk = loc[p].order THEN loc[p].snap ELSE o : o \in orders}
            /\ Respond(p, "200")
       ELSE /\ ~OrderIdLocked(p, loc[p].snap.order_id)
            /\ IF OrderIdTaken(loc[p].snap.order_id)
               THEN /\ Respond(p, "500 IntegrityError")
                    /\ UNCHANGED orders
               ELSE /\ orders' = orders \cup {loc[p].snap}
                    /\ Respond(p, "200")
    /\ UNCHANGED <<today, services, items, payments, nextId, budget>>

\* ------------------------------------------------------ service prices
\* MinValueValidator(Decimal('0.01')) on Service.price: 1 cent.
MinServicePrice == 1

\* Prices a client may send for a service: 0 and 12.00.
Prices == {0, 1200}

\* A price change that also rewrites the lines of the service.
UpdateServiceRepricing(p, id, price) ==
    /\ Free(p)
    /\ budget' = budget - 1
    /\ \E sv \in services : sv.id = id
    /\ loc' = [loc EXCEPT ![p] = [NoLoc EXCEPT !.kind = "update_service", !.amount = price]]
    /\ pc' = [pc EXCEPT ![p] = "done"]
    /\ services' = {IF sv.id = id THEN [sv EXCEPT !.price = price] ELSE sv : sv \in services}
    /\ items' = {IF i.service = id THEN OrderItem_save([i EXCEPT !.unit_price = price])
                                  ELSE i : i \in items}
    /\ resp' = [resp EXCEPT ![p] = "200"]
    /\ UNCHANGED <<today, orders, payments, nextId>>

\* PATCH /services/<pk>/ {price} (ServiceViewSet is a ModelViewSet): the
\* serializer validates the price and Service.save writes the services row,
\* and no other table.
UpdateService(p, id, price) ==
    /\ Free(p)
    /\ budget' = budget - 1
    /\ \E sv \in services : sv.id = id
    /\ loc' = [loc EXCEPT ![p] = [NoLoc EXCEPT !.kind = "update_service", !.amount = price]]
    /\ pc' = [pc EXCEPT ![p] = "done"]
    /\ IF price >= MinServicePrice
       THEN /\ services' = {IF sv.id = id THEN [sv EXCEPT !.price = price] ELSE sv
                              : sv \in services}
            /\ resp' = [resp EXCEPT ![p] = "200"]
       ELSE /\ resp' = [resp EXCEPT ![p] = "400 ValidationError"]
            /\ UNCHANGED services
    /\ UNCHANGED <<today, orders, items, payments, nextId>>

\* DELETE /services/<pk>/ (ServiceViewSet is a ModelViewSet): the service
\* and, by cascade (OrderItem.service on_delete=CASCADE), the line items
\* that reference it, in one transaction; no order row is written.
DeleteService(p, id) ==
    /\ Free(p)
    /\ budget' = budget - 1
    /\ \E sv \in services : sv.id = id
    /\ services' = {sv \in services : sv.id # id}
    /\ items' = {i \in items : i.service # id}
    /\ pc' = [pc EXCEPT ![p] = "done"]
    /\ resp' = [resp EXCEPT ![p] = "204"]
    /\ loc' = [loc EXCEPT ![p] = [NoLoc EXCEPT !.kind = "delete_service"]]
    /\ UNCHANGED <<today, orders, payments, nextId>>

\* DELETE /categories/<pk>/ (CategoryServicesViewSet is a ModelViewSet):
\* the category and, by cascade (Service.category on_delete=CASCADE), its
\* services and, by cascade again, their line items.
DeleteCategory(p, c) ==
    /\ Free(p)
    /\ budget' = budget - 1
    /\ \E sv \in services : sv.category = c
    /\ LET gone == {sv.id : sv \in {x \in services : x.category = c}}
       IN /\ services' = {sv \in services : sv.id \notin gone}
          /\ items' = {i \in items : i.service \notin gone}
    /\ pc' = [pc EXCEPT ![p] = "done"]
    /\ resp' = [resp EXCEPT ![p] = "204"]
    /\ loc' = [loc EXCEPT ![p] = [NoLoc EXCEPT !.kind = "delete_category"]]
    /\ UNCHANGED <<today, orders, payments, nextId>>

\* --------------------------------------------------------------- deletes
\* DELETE /orders/<pk>/: the order, and by cascade its items and payments.
DeleteOrder(p, o) ==
    /\ Free(p)
    /\ budget' = budget - 1
    /\ HasRow(Committed(orders), o)
    /\ orders' = {x \in orders : x.pk # o}
    /\ items' = {x \in items : x.order # o}
    /\ payments' = {x \in payments : x.order # o}
    /\ pc' = [pc EXCEPT ![p] = "done"]
    /\ resp' = [resp EXCEPT ![p] = "204"]
    /\ loc' = [loc EXCEPT ![p] = [NoLoc EXCEPT !.kind = "delete_order", !.order = o]]
    /\ UNCHANGED <<today, services, nextId>>

\* DELETE /payments/<pk>/ (PaymentViewSet is a ModelViewSet).
DeletePayment(p, k) ==
    /\ Free(p)
    /\ budget' = budget - 1
    /\ HasRow(payments, k)
    /\ payments' = {x \in payments : x.pk # k}
    /\ pc' = [pc EXCEPT ![p] = "done"]
    /\ resp' = [resp EXCEPT ![p] = "204"]
    /\ loc' = [loc EXCEPT ![p] = [NoLoc EXCEPT !.kind = "delete_payment"]]
    /\ UNCHANGED <<today, services, orders, items, nextId>>

\* -------------------------------------------------------- specifications
OrderPks == {o.pk : o \in Committed(orders)}

CreateStep(p) ==
    \/ \E its \in ItemLists : StartCreate(p, its)
    \/ CreateGenerateId(p)
    \/ CreateInsertOrder(p)
    \/ CreateItem(p)
    \/ CreateSaveTotal(p)
    \/ CreateCommit(p)

AdminCreateStep(p) ==
    \/ StartAdminCreate(p)
    \/ SaveLoop(p)
    \/ SaveInsert(p)

PaymentStep(p) ==
    \/ \E o \in OrderPks, amt \in Amounts, ref \in References :
            StartAddPayment(p, o, amt, ref)
    \/ PayValidate(p)
    \/ PayReference(p)
    \/ PayInsert(p)
    \/ PayUpdate(p)
    \/ PayRefresh(p)

StatusStep(p) ==
    \/ \E o \in OrderPks, s \in RequestedStatuses : StartChangeStatus(p, o, s)
    \/ ChangeStatusCheck(p)
    \/ \E o \in OrderPks, s \in STATUS_CHOICES : StartUpdateOrder(p, o, s)
    \/ OrderSave(p)

DeleteStep(p) ==
    \/ \E o \in OrderPks : DeleteOrder(p, o)
    \/ \E k \in {y.pk : y \in payments} : DeletePayment(p, k)

\* The payments collection: POST /payments/ and PATCH /payments/<pk>/.
PaymentsStep(p) ==
    \/ \E o \in OrderPks, amt \in Amounts, ref \in References :
            StartCreatePayment(p, o, amt, ref)
    \/ CreatePaymentValidate(p)
    \/ CreatePaymentInsert(p)
    \/ \E k \in {y.pk : y \in payments}, amt \in Amounts : StartUpdatePayment(p, k, amt)
    \/ UpdatePaymentSave(p)

Next ==
    \E p \in Workers :
        \/ CreateStep(p)
        \/ AdminCreateStep(p)
        \/ PaymentStep(p)
        \/ PaymentsStep(p)
        \/ StatusStep(p)
        \/ DeleteStep(p)

Spec == Init /\ [][Next]_vars

\* Orders only, from the empty database: creation by both paths, status
\* changes and updates, deletion of orders.
InitOrders == AtRest(ScenarioRequests) /\ EmptyDatabase

NextOrders ==
    \E p \in Workers :
        \/ CreateStep(p)
        \/ AdminCreateStep(p)
        \/ StatusStep(p)
        \/ \E o \in OrderPks : DeleteOrder(p, o)

SpecOrders == InitOrders /\ [][NextOrders]_vars

\* Order creation only, by both paths, and deletion of orders.
NextCreate ==
    \E p \in Workers :
        \/ CreateStep(p)
        \/ AdminCreateStep(p)
        \/ \E o \in OrderPks : DeleteOrder(p, o)

SpecCreate == InitOrders /\ [][NextCreate]_vars

\* One order row under contention: payments, status changes, updates and
\* deletions on the database that holds one order.
InitRow == AtRest(ScenarioRequests) /\ OneOrderDatabase

NextRow ==
    \E p \in Workers :
        \/ PaymentStep(p)
        \/ StatusStep(p)
        \/ DeleteStep(p)

SpecRow == InitRow /\ [][NextRow]_vars

NextStatus ==
    \E p \in Workers :
        \/ StatusStep(p)
        \/ \E o \in OrderPks : DeleteOrder(p, o)

\* Status changes, updates and deletion of the one order, over as many
\* requests as Spec serves.
InitStatus == AtRest(MaxRequests) /\ OneOrderDatabase

SpecStatus == InitStatus /\ [][NextStatus]_vars

\* Payments on one order row, where a statement may raise a database error.
NextPayFault ==
    \E p \in Workers :
        \/ PaymentStep(p)
        \/ StorageFault(p)

SpecPayFault == InitRow /\ [][NextPayFault]_vars

\* Order creation through the API alone, with the bodies of CreateRequests.
NextCreateRequest ==
    \E p \in Workers :
        \/ \E data \in CreateRequests : StartCreateRequest(p, data)
        \/ CreateValidate(p)
        \/ CreateGenerateId(p)
        \/ CreateInsertOrder(p)
        \/ CreateItem(p)
        \/ CreateSaveTotal(p)
        \/ CreateCommit(p)

SpecCreateRequest == InitOrders /\ [][NextCreateRequest]_vars

\* Payments through add_payment alone, on the database that holds one order.
NextPay == \E p \in Workers : PaymentStep(p)

SpecPay == InitRow /\ [][NextPay]_vars

\* Payments through add_payment and through the payments collection.
NextPayments ==
    \E p \in Workers :
        \/ PaymentStep(p)
        \/ PaymentsStep(p)
        \/ \E k \in {y.pk : y \in payments} : DeletePayment(p, k)

SpecPayments == InitRow /\ [][NextPayments]_vars

\* Price changes next to order creation, on the database that holds one
\* order with its two lines.
NextPrices ==
    \E p \in Workers :
        \/ CreateStep(p)
        \/ \E sv \in services, price \in Prices : UpdateService(p, sv.id, price)

SpecPrices == InitRow /\ [][NextPrices]_vars

\* No other request is being served.
Quiet == \A q \in Workers : pc[q] \in {"idle", "done"}

\* Purely sequential execution: a request is accepted only when no other
\* is being served.  Order creations and order deletions, on the database
\* that holds one order.
NextSequential ==
    \E p \in Workers :
        \/ Quiet /\ \E its \in ItemLists : StartCreate(p, its)
        \/ Quiet /\ \E o \in OrderPks : DeleteOrder(p, o)
        \/ CreateGenerateId(p)
        \/ CreateInsertOrder(p)
        \/ CreateItem(p)
        \/ CreateSaveTotal(p)
        \/ CreateCommit(p)

SpecSequential == InitStatus /\ [][NextSequential]_vars

\* The catalogue changes under the order that exists: price changes,
\* deletions of services and of categories.
NextCatalogue ==
    \E p \in Workers :
        \/ \E sv \in services, price \in Prices : UpdateService(p, sv.id, price)
        \/ \E sv \in services : DeleteService(p, sv.id)
        \/ \E sv \in services : DeleteCategory(p, sv.category)

SpecCatalogue == InitStatus /\ [][NextCatalogue]_vars

\* The database InitRow and InitStatus start from is one Spec reaches.
OneOrderDatabaseReached == OneOrderDatabase /\ today = 1

\* ----------------------------------------------------------------- claims
Kind(p) == loc[p].kind
Finished(p, k) == pc[p] = "done" /\ loc[p].kind = k
PaymentsOf(o) == {y \in payments : y.order = o}
ItemsOf(rows, o) == {i \in Committed(rows) : i.order = o}

\* Sum of unit_price x quantity over a set of line-item rows.
RECURSIVE SumLines(_)
SumLines(rows) ==
    IF rows = {} THEN 0
    ELSE LET r == CHOOSE x \in rows : TRUE
         IN r.unit_price * r.quantity + SumLines(rows \ {r})

\* Two requests that do not name the same reference of their own.
DistinctGivenRefs(p, q) == loc[p].ref = Blank \/ loc[q].ref = Blank \/ loc[p].ref # loc[q].ref

\* C1: when two addPayment requests with valid amounts A and B, run
\* concurrently against the same order, have both completed, the order's
\* amount_paid has increased by exactly A + B.  (Under SpecRow the order
\* starts with amount_paid = 0 and two requests are served in all.)
C1_BothPaymentsReflected ==
    \A p, q \in Workers :
        ( /\ p # q
          /\ Finished(p, "add_payment") /\ Finished(q, "add_payment")
          /\ loc[p].order = loc[q].order
          /\ loc[p].amount >= MinPaymentAmount /\ loc[q].amount >= MinPaymentAmount
          /\ DistinctGivenRefs(p, q) )
        => \E o \in Committed(orders) :
               o.pk = loc[p].order /\ o.amount_paid = loc[p].amount + loc[q].amount

\* C2: when a changeStatus (or an order update) and an addPayment on the
\* same order have both completed successfully, amount_paid includes the
\* payment and status is the requested status: neither write reverts the
\* other's field.  (Under SpecRow amount_paid starts at 0 and two requests
\* are served in all.)
C2_WritesDoNotRevert ==
    \A p, q \in Workers :
        ( /\ Finished(p, "add_payment") /\ resp[p] = "201"
          /\ pc[q] = "done" /\ Kind(q) \in {"change_status", "update_order"}
          /\ resp[q] = "200"
          /\ loc[p].order = loc[q].order )
        => \E o \in Committed(orders) :
               /\ o.pk = loc[p].order
               /\ o.amount_paid = loc[p].amount
               /\ o.status = loc[q].status

\* C3: in every reachable state, every order's amount_paid equals the sum
\* of the amounts of the persisted payments of that order.
C3_AmountPaidIsSumOfPayments ==
    \A o \in Committed(orders) : o.amount_paid = SumAmount(PaymentsOf(o.pk))

\* C4: once an addPayment has failed, at whatever step, and no other
\* request is under way, the store holds neither a payment without its
\* increment of amount_paid nor an increment without its payment.
C4_FailedPaymentLeavesNoHalf ==
    ( /\ \A q \in Workers : pc[q] \in {"idle", "done"}
      /\ \E p \in Workers : Finished(p, "add_payment") /\ resp[p] # "201" )
    => \A o \in Committed(orders) : o.amount_paid = SumAmount(PaymentsOf(o.pk))

\* The order of a createOrder request of worker p as other requests see it.
CreatedOrderComplete(p, os, is) ==
    LET k == loc[p].order
        o == Row(Committed(os), k)
        lines == ItemsOf(is, k)
    IN /\ Cardinality(lines) = Len(loc[p].items)
       /\ o.total_amount = SumLines(lines)
       /\ \A i \in lines : i.total_price = i.unit_price * i.quantity

\* C5: when a createOrder succeeds, the order's total_amount is exactly the
\* sum over its persisted line items of unit_price x quantity, and every
\* line's total_price is its unit_price x quantity.
C5_TotalIsSumOfLines ==
    [][\A p \in Workers :
          (pc[p] = "co_commit" /\ pc'[p] = "done" /\ resp'[p] = "201")
          => LET k == loc[p].order
                 o == Row(Committed(orders'), k)
                 lines == ItemsOf(items', k)
             IN /\ o.total_amount = SumLines(lines)
                /\ \A i \in lines : i.total_price = i.unit_price * i.quantity]_vars

C5_Witness ==
    \E p \in Workers :
        /\ Finished(p, "create") /\ resp[p] = "201"
        /\ loc[p].items = <<Item(1, 2), Item(2, 1)>>
        /\ \E o \in Committed(orders) : o.pk = loc[p].order /\ o.total_amount = 2550
        /\ Cardinality(ItemsOf(items, loc[p].order)) = 2

\* C6: order creation is all-or-nothing and isolated: whenever the order of
\* a createOrder request with n items is, after a step, a row that other
\* requests read, the request has just committed, all n line items are
\* readable with it, and total_amount is the sum of the n lines.
C6_CreationIsAtomic ==
    [][\A p \in Workers :
          ( /\ loc[p].kind = "create"
            /\ pc[p] \in {"co_insert", "co_items", "co_commit"}
            /\ HasRow(Committed(orders'), loc'[p].order) )
          => /\ pc[p] = "co_commit"
             /\ CreatedOrderComplete(p, orders', items')]_vars

\* A request has written its order and the first of its two lines, not yet
\* committed, while another request is about to count the orders.
C6_Witness ==
    \E p, q \in Workers :
        /\ pc[p] = "co_items" /\ loc[p].idx = 2 /\ Len(loc[p].items) = 2
        /\ \E o \in orders : o.pk = loc[p].order /\ o.tx = p
        /\ \E i \in items : i.order = loc[p].order /\ i.tx = p
        /\ pc[q] = "co_generate"

\* C7: in every reachable state, no two persisted orders have the same
\* order_id.
C7_OrderIdsUnique ==
    \A a, b \in Committed(orders) : a.pk # b.pk => a.order_id # b.order_id

\* An order is persisted and another request's insert of the same order_id
\* has been refused.
C7_Witness ==
    /\ Committed(orders) # {}
    /\ \E p \in Workers : pc[p] = "done" /\ resp[p] = "500 IntegrityError"

\* The items of a request all name services that exist.
ValidItems(its) == \A n \in 1..Len(its) : \E sv \in services : sv.id = its[n].service_id

\* C8: a createOrder request with valid input does not end with an order_id
\* uniqueness conflict: concurrent requests of the same day both succeed.
\* (Under SpecCreate no order is deleted before the requests run: two
\* requests are served in all.)
C8_ConcurrentCreatesSucceed ==
    \A p \in Workers :
        (Finished(p, "create") /\ ValidItems(loc[p].items)) => resp[p] = "201"

\* C9: order-id generation always terminates by itself: while Order.save
\* is in its loop, it can leave it, by an id that is free or by giving up.
\* (The loop has no exit but a free id.)
C9_GenerationCanFinish ==
    \A p \in Workers :
        pc[p] = "sv_loop"
        => \E r \in RandomParts :
               ~\E o \in VisibleTo(p, orders) : o.order_id = <<loc[p].oid[1], r>>

\* C10: a changeStatus request is accepted (it ends with 200 and the order
\* has the requested status) exactly when the requested status is one of
\* the five choices, whatever the order's current status; otherwise it
\* ends with the invalid-status error and leaves all tables unchanged.
C10_StatusValidation ==
    [][\A p \in Workers :
          (loc[p].kind = "change_status" /\ pc[p] # "done" /\ pc'[p] = "done")
          => IF loc[p].status \in STATUS_CHOICES
             THEN /\ resp'[p] = "200"
                  /\ \E o \in Committed(orders') :
                         o.pk = loc[p].order /\ o.status = loc[p].status
             ELSE /\ resp'[p] = "400 Invalid status"
                  /\ UNCHANGED <<orders, items, payments>>]_vars

\* A DELIVERED order was moved back to PENDING, and a request for the
\* status SHIPPED was refused.
C10_Witness ==
    /\ \E o \in Committed(orders) : o.status = "PENDING" /\ o.pickup_date # NoDate
    /\ \E p \in Workers :
           /\ Finished(p, "change_status") /\ loc[p].status = "SHIPPED"
           /\ resp[p] = "400 Invalid status"

\* C11: a changeStatus to DELIVERED on an order whose pickup_date is already
\* set leaves pickup_date as it was: the step that saves the order keeps the
\* stored pickup_date.
C11_PickupDateSetOnce ==
    [][\A p \in Workers :
          ( /\ loc[p].kind = "change_status" /\ loc[p].status = "DELIVERED"
            /\ pc[p] = "order_save" /\ pc'[p] = "done" )
          => \A o \in Committed(orders) :
                 (o.pk = loc[p].order /\ o.pickup_date # NoDate)
                 => \E n \in Committed(orders') :
                        n.pk = o.pk /\ n.pickup_date = o.pickup_date]_vars

\* The rows a createOrder request of worker p has in the tables.
RowsOfRequest(p, os, is) ==
    IF loc[p].order = 0 THEN {}
    ELSE {o \in os : o.pk = loc[p].order} \cup {i \in is : i.order = loc[p].order}

\* C12: a createOrder whose due date is not strictly after the creation
\* (here: a due date that is after no day) ends with a validation error on
\* due_date and has persisted no order.
C12_DueDateMustBeFuture ==
    \A p \in Workers :
        ( /\ Finished(p, "create")
          /\ \A d \in Days : loc[p].due <= d
          /\ loc[p].due # NoDate )
        => /\ resp[p] = "400 ValidationError due_date"
           /\ RowsOfRequest(p, orders, items) = {}

\* The first line of an item list that names a service that does not exist
\* (0 when every line names one that does).
FirstMissing(its) ==
    LET missing == {n \in 1..Len(its) : ~\E sv \in services : sv.id = its[n].service_id}
    IN IF missing = {} THEN 0 ELSE CHOOSE n \in missing : \A m \in missing : n <= m

\* C13: a createOrder request whose items name a service that does not
\* exist, at whatever position, ends with the error that names that id, and
\* the step that ends it leaves no order row and no line-item row of the
\* request in the tables; a request with a quantity below 1 ends with a
\* validation error and has written nothing at all.  (Here the error
\* names the first missing service of the list.)
C13_FailedCreatePersistsNothing ==
    [][\A p \in Workers :
          (loc[p].kind = "create" /\ pc[p] # "done" /\ pc'[p] = "done")
          => LET its == loc[p].items
                 n == FirstMissing(its)
             IN /\ (\E k \in 1..Len(its) : its[k].quantity < 1)
                   => /\ resp'[p] = "400 ValidationError quantity"
                      /\ loc[p].order = 0
                      /\ UNCHANGED <<orders, items, nextId>>
                /\ (n # 0 /\ \A k \in 1..Len(its) : its[k].quantity >= 1)
                   => /\ resp'[p] = ServiceNotFound(its[n].service_id)
                      /\ RowsOfRequest(p, orders', items') = {}
                      /\ \A r \in orders' \cup items' : r.tx # p]_vars

\* C17: the step that commits a createOrder leaves the new order with an
\* order_id that is not blank, amount_paid = 0, status PENDING and no
\* pickup_date, whatever status and amount_paid the request's body carries.
C17_InitialFields ==
    [][\A p \in Workers :
          (pc[p] = "co_commit" /\ pc'[p] = "done" /\ resp'[p] = "201")
          => \E o \in Committed(orders') :
                 /\ o.pk = loc[p].order
                 /\ o.order_id # Blank
                 /\ o.amount_paid = 0
                 /\ o.status = "PENDING"
                 /\ o.pickup_date = NoDate]_vars

\* A request whose body carried status DELIVERED and amount_paid 10.00 has
\* succeeded, and its order is PENDING with nothing paid.
C17_Witness ==
    \E p \in Workers :
        /\ Finished(p, "create") /\ resp[p] = "201"
        /\ loc[p].status = "DELIVERED" /\ loc[p].amount = 1000
        /\ \E o \in Committed(orders) :
               o.pk = loc[p].order /\ o.status = "PENDING" /\ o.amount_paid = 0

\* C14: an addPayment request that names no reference is refused by the
\* validation exactly when its amount is 0 or less: every amount above 0
\* passes.
C14_AcceptedIffPositive ==
    \A p \in Workers :
        (Finished(p, "add_payment") /\ loc[p].ref = Blank)
        => (resp[p] = "400 ValidationError" <=> loc[p].amount <= 0)

\* C18: after every step, is_paid of every order is true exactly when
\* amount_paid >= total_amount, and balance is total_amount - amount_paid,
\* negative or not; and the UPDATE of an addPayment adds the whole amount to
\* amount_paid, whatever is left to pay.
C18_BalanceAndIsPaid ==
    [][/\ \A o \in Committed(orders') :
              /\ is_paid(o) <=> ~(o.amount_paid < o.total_amount)
              /\ balance(o) + o.amount_paid = o.total_amount
       /\ \A p \in Workers :
              (pc[p] = "ap_update" /\ pc'[p] = "ap_refresh")
              => \A o \in Committed(orders) :
                     o.pk = loc[p].order
                     => \E n \in Committed(orders') :
                            /\ n.pk = o.pk
                            /\ n.amount_paid = o.amount_paid + loc[p].amount]_vars

\* Two payments of 15.50 on the order of 25.50 were both accepted: the
\* balance is -5.50 and the order is paid.  (10.00 + 15.50 gives balance 0.)
C18_Witness ==
    /\ \A p \in Workers :
           Finished(p, "add_payment") /\ resp[p] = "201" /\ loc[p].amount = 1550
    /\ \E o \in Committed(orders) : balance(o) = 0 - 550 /\ is_paid(o)

\* C15: a persisted payment is immutable: no step changes its amount or
\* its order, or removes it while its order exists.
C15_PaymentsImmutable ==
    [][\A y \in payments :
          HasRow(Committed(orders'), y.order)
          => \E n \in payments' :
                 n.pk = y.pk /\ n.amount = y.amount /\ n.order = y.order]_vars

\* C19: an addPayment request with a valid amount and no reference does not
\* fail: it ends with 201, whatever references the stored payments have and
\* whatever other addPayment runs next to it.
C19_GeneratedReferenceNeverConflicts ==
    \A p \in Workers :
        ( /\ Finished(p, "add_payment")
          /\ loc[p].amount >= MinPaymentAmount
          /\ loc[p].ref = Blank )
        => resp[p] = "201"

\* C20: a payment with a valid amount and no reference of its own, sent to
\* the payments collection for an order, is not lost: once the request is
\* served the order's amount_paid includes its amount.
C20_CollectionPaymentApplied ==
    \A p \in Workers :
        ( /\ Finished(p, "create_payment")
          /\ loc[p].amount >= MinPaymentAmount
          /\ loc[p].ref = Blank )
        => \E o \in Committed(orders) :
               o.pk = loc[p].order /\ o.amount_paid >= loc[p].amount

\* C16: no step changes the unit_price or the total_price of a line item
\* that exists, or the total_amount of an order that other requests read,
\* whatever happens to the prices of the services; and a line item that a
\* step creates has the price of its service at that moment as unit_price.
C16_PriceSnapshot ==
    [][/\ \A i \in items : \A n \in items' :
              n.pk = i.pk => n.unit_price = i.unit_price /\ n.total_price = i.total_price
       /\ \A o \in Committed(orders) : \A n \in orders' :
              n.pk = o.pk => n.total_amount = o.total_amount
       /\ \A n \in items' :
              (~\E i \in items : i.pk = n.pk)
              => \E sv \in services : sv.id = n.service /\ n.unit_price = sv.price]_vars

\* The price of service 1 is now 12.00: the line of the first order still
\* has 10.00 x 2 = 20.00 and the order 25.50, and a line created since has
\* 12.00.
C16_Witness ==
    /\ \E sv \in services : sv.id = 1 /\ sv.price = 1200
    /\ \E i \in Committed(items) :
           i.order = 1 /\ i.service = 1 /\ i.unit_price = 1000 /\ i.total_price = 2000
    /\ \E o \in Committed(orders) : o.pk = 1 /\ o.total_amount = 2550
    /\ \E i \in Committed(items) : i.order = 2 /\ i.service = 1 /\ i.unit_price = 1200

\* C23: in every reachable state, every order whose status is DELIVERED has
\* a pickup_date, whether changeStatus or an order update stored the status.
C23_DeliveredHasPickupDate ==
    \A o \in Committed(orders) : o.status = "DELIVERED" => o.pickup_date # NoDate

\* C22: when no two requests overlap, a createOrder with valid input does
\* not end with a uniqueness conflict on order_id, after whatever creations
\* and deletions of orders came before it.
C22_SequentialCreateNeverConflicts ==
    \A p \in Workers :
        (Finished(p, "create") /\ ValidItems(loc[p].items))
        => resp[p] # "500 IntegrityError"

\* C21: in every reachable state, the total_amount of every persisted order
\* equals the sum of total_price over its persisted line items, whatever
\* services were updated or deleted and whatever categories were deleted.
C21_TotalMatchesLines ==
    \A o \in Committed(orders) : o.total_amount = SumTotalPrice(ItemsOf(items, o.pk))

====
